---- MODULE Spec2Model ----
(***************************************************************************)
(* git-user-switch (src/git-switch/git-user-script.py): a menu loop over   *)
(* a JSON record store kept in <.git>/git-users.json and over the local    *)
(* git configuration keys user.name / user.email.                          *)
(*                                                                         *)
(* Strings are sequences of one-character strings, so that strip(),        *)
(* lower(), int() and the "@" test are computed as Python computes them.   *)
(* An optional value (Python None or a str) is [some, v].                  *)
(***************************************************************************)
EXTENDS Integers, Sequences, FiniteSets, TLC

VARIABLES
    cwd,        \* depth of the working directory below the root (0 = root)
    dotgit,     \* dotgit[d]: what "<ancestor at depth d>/.git" is
    toolOk,     \* the git executable can be launched
    cfgName,    \* local config user.name  (optional string)
    cfgEmail,   \* local config user.email (optional string)
    file,       \* content of <git_dir>/git-users.json
    gitDir,     \* self.git_dir: optional depth of the directory holding .git
    users,      \* self.users
    pc,         \* the prompt (or step) the program is at
    name,       \* local `name` of add_user / remove_user across prompts
    email,      \* local `email` of add_user across prompts
    exitStatus, \* [exited, code]: the process exit status once it has exited
    budget,     \* failures (of a save, of a git write) the environment may still inject
    lastSave,   \* outcome of the most recent _save_users call, with the store it was given
    ev          \* what the last step did: input read, exception, handler, writes, save

vars == <<cwd, dotgit, toolOk, cfgName, cfgEmail, file, gitDir, users, pc,
          name, email, exitStatus, budget, lastSave, ev>>

(***************************************************************************)
(* Bounds                                                                  *)
(***************************************************************************)
MaxDepth == 3       \* deepest working directory the locator is tried on
MaxFaults == 1      \* environment failures (failed save, failed git write) per run

(***************************************************************************)
(* Optional values and strings                                             *)
(***************************************************************************)
None == [some |-> FALSE, v |-> <<>>]

Some(s) == [some |-> TRUE, v |-> s]

IsSpace(c) == c \in {" ", "\n"}

RECURSIVE LStrip(_)
LStrip(s) ==
    IF s # <<>> /\ IsSpace(Head(s)) THEN LStrip(Tail(s)) ELSE s

RECURSIVE RStrip(_)
RStrip(s) ==
    IF s # <<>> /\ IsSpace(s[Len(s)]) THEN RStrip(SubSeq(s, 1, Len(s) - 1)) ELSE s

\* str.strip()
Strip(s) == RStrip(LStrip(s))

LowerChar(c) ==
    CASE c = "Y" -> "y"
      [] c = "N" -> "n"
      [] c = "E" -> "e"
      [] c = "S" -> "s"
      [] OTHER -> c

\* str.lower()
Lower(s) == [i \in DOMAIN s |-> LowerChar(s[i])]

\* `c in s`
Contains(s, c) == \E i \in DOMAIN s : s[i] = c

Digits == <<"0", "1", "2", "3", "4", "5", "6", "7", "8", "9">>

IsDigit(c) == \E i \in DOMAIN Digits : Digits[i] = c

DigitValue(c) == (CHOOSE i \in DOMAIN Digits : Digits[i] = c) - 1

RECURSIVE DecimalValue(_)
DecimalValue(s) ==
    IF s = <<>> THEN 0
    ELSE DecimalValue(SubSeq(s, 1, Len(s) - 1)) * 10 + DigitValue(s[Len(s)])

\* int(s): surrounding whitespace is dropped, one sign is allowed, then digits;
\* anything else is a ValueError (ok = FALSE).  The inputs tried hold no "_" and
\* no digits outside 0-9.
ParseInt(s) ==
    LET t == Strip(s)
        signed == t # <<>> /\ Head(t) \in {"+", "-"}
        body == IF signed THEN Tail(t) ELSE t
        ok == body # <<>> /\ \A i \in DOMAIN body : IsDigit(body[i])
    IN  IF ~ok THEN [ok |-> FALSE, val |-> 0]
        ELSE [ok |-> TRUE,
              val |-> IF signed /\ Head(t) = "-" THEN 0 - DecimalValue(body)
                      ELSE DecimalValue(body)]

(***************************************************************************)
(* Repository locator                                                      *)
(***************************************************************************)
EntryKinds == {"none", "file", "dir"}

NoDir == [found |-> FALSE, at |-> 0]

DirAt(d) == [found |-> TRUE, at |-> d]

\* Path.parent: the root is its own parent
Parent(d) == IF d = 0 THEN 0 ELSE d - 1

\* git_dir.exists() and git_dir.is_dir()
IsGitDirectory(dg, d) == dg[d] = "dir"

RECURSIVE WalkUp(_, _)
WalkUp(current, dg) ==
    IF current = Parent(current) THEN NoDir
    ELSE IF IsGitDirectory(dg, current) THEN DirAt(current)
    ELSE WalkUp(Parent(current), dg)

\* _find_git_dir(): current = Path.cwd(); while current != current.parent: ...
FindGitDir(start, dg) == WalkUp(start, dg)

(***************************************************************************)
(* Record store: the JSON text of git-users.json and the dict in memory     *)
(*                                                                         *)
(* A file is [kind, members]: absent; undecodable (bytes that are no text  *)
(* in the default encoding); garbage (text that is no JSON document, an    *)
(* empty or cut-off file included); array or object (a JSON document with  *)
(* its members in file order).  A JSON scalar is a token [t, s].           *)
(* The store in memory is [kind, items]: a dict keeps its entries in       *)
(* insertion order, each [name, email, password].                          *)
(***************************************************************************)
JsonNull == [t |-> "null", s |-> <<>>]

JsonString(s) == [t |-> "string", s |-> s]

AbsentFile == [kind |-> "absent", members |-> <<>>]

UndecodableFile == [kind |-> "undecodable", members |-> <<>>]

GarbageFile == [kind |-> "garbage", members |-> <<>>]

ArrayFile(elems) == [kind |-> "array", members |-> elems]

ObjectFile(members) == [kind |-> "object", members |-> members]

Member(k, e, p) == [key |-> k, email |-> e, password |-> p]

Entry(n, e, p) == [name |-> n, email |-> e, password |-> p]

EmptyDict == [kind |-> "dict", items |-> <<>>]

\* json decoding of a scalar: null -> None, "..." -> str
FromJson(tok) == IF tok.t = "null" THEN None ELSE Some(tok.s)

\* json encoding of a scalar: None -> null, str -> "..."
ToJsonBroken(o) == IF o.some THEN JsonString(o.v) ELSE JsonString(<<"N", "o", "n", "e">>)

ToJson(o) == IF o.some THEN JsonString(o.v) ELSE JsonNull

IndexOfKey(items, k) ==
    IF \E i \in DOMAIN items : items[i].name = k
    THEN CHOOSE i \in DOMAIN items : items[i].name = k
    ELSE 0

\* d[k] = {'email': e, 'password': p}: an existing key keeps its place
DictSet(items, k, e, p) ==
    LET i == IndexOfKey(items, k)
    IN  IF i = 0 THEN Append(items, Entry(k, e, p))
        ELSE [items EXCEPT ![i] = Entry(k, e, p)]

\* del d[k]
DictDel(items, k) ==
    LET i == IndexOfKey(items, k)
    IN  SubSeq(items, 1, i - 1) \o SubSeq(items, i + 1, Len(items))

RECURSIVE ParseMembers(_)
ParseMembers(ms) ==
    IF ms = <<>> THEN <<>>
    ELSE LET m == ms[Len(ms)]
         IN  DictSet(ParseMembers(SubSeq(ms, 1, Len(ms) - 1)),
                     m.key, FromJson(m.email), FromJson(m.password))

\* json.load(f) of a well-formed document: an object becomes a dict (a repeated
\* key keeps its first place and its last value), an array a list
JsonLoad(f) ==
    IF f.kind = "object" THEN [kind |-> "dict", items |-> ParseMembers(f.members)]
    ELSE [kind |-> "list", items |-> [i \in DOMAIN f.members |-> FromJson(f.members[i])]]

\* json.dump(self.users, f, indent=2)
JsonDump(u) ==
    IF u.kind = "dict"
    THEN ObjectFile([i \in DOMAIN u.items |->
                        Member(u.items[i].name, ToJson(u.items[i].email),
                               ToJson(u.items[i].password))])
    ELSE ArrayFile([i \in DOMAIN u.items |-> ToJson(u.items[i])])

\* _load_users(): [exc, value]; only json.JSONDecodeError is caught
LoadUsers(f) ==
    CASE f.kind = "absent" -> [exc |-> "none", value |-> EmptyDict]
      [] f.kind = "garbage" -> [exc |-> "none", value |-> EmptyDict]
      [] f.kind = "undecodable" -> [exc |-> "UnicodeDecodeError", value |-> EmptyDict]
      [] OTHER -> [exc |-> "none", value |-> JsonLoad(f)]

SaveOutcomes == {"ok", "open_failed", "write_failed"}

\* _save_users(): open(..., 'w') truncates, json.dump writes; [exc, file]
SaveUsers(u, f, outcome) ==
    CASE outcome = "ok" -> [exc |-> "none", file |-> JsonDump(u)]
      [] outcome = "open_failed" -> [exc |-> "OSError", file |-> f]
      [] OTHER -> [exc |-> "OSError", file |-> GarbageFile]

\* `not self.users`
IsFalsy(u) == u.items = <<>>

\* what list_users() prints: "  {i}. {name} <{email}>" for each entry in order
Listing(u) ==
    [i \in DOMAIN u.items |->
        [index |-> i, name |-> u.items[i].name, email |-> u.items[i].email]]

\* list_users(): "empty" (returns False), "listed" (returns True), or the
\* AttributeError of .items() on a value that is no dict
ListUsers(u) ==
    IF IsFalsy(u) THEN "empty"
    ELSE IF u.kind = "dict" THEN "listed"
    ELSE "AttributeError"

(***************************************************************************)
(* External config bridge                                                  *)
(***************************************************************************)
\* _run_git_command(): [exc, out]; only CalledProcessError is caught
RunGitCommand(launches, exitZero, stdout) ==
    IF ~launches THEN [exc |-> "FileNotFoundError", out |-> None]
    ELSE IF exitZero THEN [exc |-> "none", out |-> Some(Strip(stdout))]
    ELSE [exc |-> "none", out |-> None]

\* git config --local <key>: exit 1 when the key is unset, else the value and a newline
ReadConfig(launches, cfg) == RunGitCommand(launches, cfg.some, cfg.v \o <<"\n">>)

\* get_current_user(): [exc, name, email]
GetCurrentUser(launches, cn, ce) ==
    LET n == ReadConfig(launches, cn)
        e == ReadConfig(launches, ce)
    IN  IF n.exc # "none" THEN [exc |-> n.exc, name |-> None, email |-> None]
        ELSE IF e.exc # "none" THEN [exc |-> e.exc, name |-> None, email |-> None]
        ELSE [exc |-> "none", name |-> n.out, email |-> e.out]

NoWrites == <<>>

WriteRec(k, v, ok) == [key |-> k, value |-> v, ok |-> ok]

\* set_git_user(name, email): two writes, the result of each ignored;
\* ok1, ok2: whether git exits zero on each.  [exc, name, email, writes]
SetGitUser(launches, cn, ce, n, e, ok1, ok2) ==
    LET w1 == RunGitCommand(launches, ok1, <<>>)
        w2 == RunGitCommand(launches, ok2, <<>>)
    IN  IF w1.exc # "none"
        THEN [exc |-> w1.exc, name |-> cn, email |-> ce, writes |-> NoWrites]
        ELSE IF ~e.some
        THEN [exc |-> "TypeError", name |-> IF ok1 THEN Some(n) ELSE cn, email |-> ce,
              writes |-> <<WriteRec("user.name", Some(n), ok1)>>]
        ELSE [exc |-> w2.exc,
              name |-> IF ok1 THEN Some(n) ELSE cn,
              email |-> IF ok2 THEN e ELSE ce,
              writes |-> <<WriteRec("user.name", Some(n), ok1),
                           WriteRec("user.email", e, ok2)>>]

(***************************************************************************)
(* Console input and what a step reports                                    *)
(***************************************************************************)
NoInput == [kind |-> "none", text |-> <<>>]

Line(t) == [kind |-> "line", text |-> t]

Interrupt == [kind |-> "interrupt", text |-> <<>>]

EndOfInput == [kind |-> "eof", text |-> <<>>]

\* input() / getpass(): Ctrl-C raises KeyboardInterrupt, a closed stdin EOFError
InputExc(inp) ==
    CASE inp.kind = "interrupt" -> "KeyboardInterrupt"
      [] inp.kind = "eof" -> "EOFError"
      [] OTHER -> "none"

NotExited == [exited |-> FALSE, code |-> 0]

Exited(c) == [exited |-> TRUE, code |-> c]

NoGot == [name |-> None, email |-> None]

NoEv == [op |-> "none", input |-> NoInput, exc |-> "none", handler |-> "none",
         msg |-> "", save |-> "none", writes |-> NoWrites, got |-> NoGot,
         shown |-> <<>>, loaded |-> FALSE]

\* What the code between two prompts leaves behind: where it stops, the exception
\* it raised (handler "inner" when the operation's own except clause took it), the
\* last message printed, and the values it assigned.
Base ==
    [pc |-> "loop_top", exc |-> "none", handler |-> "none", msg |-> "",
     users |-> users, file |-> file, cfgName |-> cfgName, cfgEmail |-> cfgEmail,
     writes |-> NoWrites, save |-> "none", name |-> <<>>, email |-> <<>>,
     shown |-> <<>>]

Raise(r, exc) == [r EXCEPT !.exc = exc]

\* run(): except KeyboardInterrupt: goodbye, break; except Exception: report, go on
RunCatchPropagates(exc) ==
    IF exc = "KeyboardInterrupt"
    THEN [pc |-> "done", handler |-> "loop", msg |-> "Goodbye!", exit |-> Exited(0)]
    ELSE [pc |-> "done", handler |-> "main", msg |-> "Fatal error", exit |-> Exited(1)]

RunCatchInterruptIsError(exc) ==
    [pc |-> "loop_top", handler |-> "loop", msg |-> "Error", exit |-> NotExited]

RunCatch(exc) ==
    IF exc = "KeyboardInterrupt"
    THEN [pc |-> "done", handler |-> "loop", msg |-> "Goodbye!", exit |-> Exited(0)]
    ELSE [pc |-> "loop_top", handler |-> "loop", msg |-> "Error", exit |-> NotExited]

\* main(): except KeyboardInterrupt: exit 0; except Exception: exit 1;
\* SystemExit is neither and ends the process with its own code
MainCatch(exc) ==
    CASE exc = "KeyboardInterrupt" ->
            [pc |-> "done", handler |-> "main", msg |-> "Goodbye!", exit |-> Exited(0)]
      [] exc = "SystemExit" ->
            [pc |-> "done", handler |-> "none", msg |-> "Error: Not in a Git repository",
             exit |-> Exited(1)]
      [] OTHER ->
            [pc |-> "done", handler |-> "main", msg |-> "Fatal error", exit |-> Exited(1)]

(***************************************************************************)
(* The operations, each from one prompt to the next                         *)
(***************************************************************************)
\* change_user() up to its prompt
ChangeUserBegin ==
    LET l == ListUsers(users)
    IN  CASE l = "empty" -> [Base EXCEPT !.msg = "Add a user first!"]
          [] l = "listed" -> [Base EXCEPT !.pc = "change_choice", !.shown = Listing(users)]
          [] OTHER -> Raise(Base, l)

\* remove_user() up to its first prompt
RemoveUserBegin ==
    LET l == ListUsers(users)
    IN  CASE l = "empty" -> [Base EXCEPT !.msg = "No users saved yet"]
          [] l = "listed" -> [Base EXCEPT !.pc = "remove_choice", !.shown = Listing(users)]
          [] OTHER -> Raise(Base, l)

\* run(): the menu prompt and the dispatch
MenuDispatch(inp) ==
    LET choice == Strip(inp.text)
    IN  CASE InputExc(inp) # "none" -> Raise(Base, InputExc(inp))
          [] choice = <<"1">> -> ChangeUserBegin
          [] choice = <<"2">> -> [Base EXCEPT !.pc = "add_name"]
          [] choice = <<"3">> -> RemoveUserBegin
          [] choice = <<"4">> -> [Base EXCEPT !.pc = "done", !.msg = "Goodbye!"]
          [] OTHER -> [Base EXCEPT !.msg = "Invalid option. Please choose 1-4."]

\* set_git_user() called from an operation
Switched(r, n, e, ok1, ok2) ==
    LET s == SetGitUser(toolOk, cfgName, cfgEmail, n, e, ok1, ok2)
    IN  [r EXCEPT !.exc = s.exc, !.cfgName = s.name, !.cfgEmail = s.email,
                  !.writes = s.writes,
                  !.msg = IF s.exc = "none" THEN "Switched to" ELSE r.msg]

\* change_user() from its prompt on
ChangeUserChoiceOffByOne(inp, ok1, ok2) ==
    LET p == ParseInt(inp.text)
    IN  CASE InputExc(inp) # "none" -> Raise(Base, InputExc(inp))
          [] ~p.ok -> [Base EXCEPT !.exc = "ValueError", !.handler = "inner",
                                   !.msg = "Invalid input"]
          [] p.val = 0 -> Base
          [] 1 <= p.val /\ p.val < Len(users.items) ->
                Switched(Base, users.items[p.val + 1].name, users.items[p.val + 1].email,
                         ok1, ok2)
          [] OTHER -> [Base EXCEPT !.msg = "Invalid choice"]

ChangeUserChoice(inp, ok1, ok2) ==
    LET p == ParseInt(inp.text)
    IN  CASE InputExc(inp) # "none" -> Raise(Base, InputExc(inp))
          [] ~p.ok -> [Base EXCEPT !.exc = "ValueError", !.handler = "inner",
                                   !.msg = "Invalid input"]
          [] p.val = 0 -> Base
          [] 1 <= p.val /\ p.val <= Len(users.items) ->
                Switched(Base, users.items[p.val].name, users.items[p.val].email,
                         ok1, ok2)
          [] OTHER -> [Base EXCEPT !.msg = "Invalid choice"]

\* add_user(): the name prompt
AddUserNameNoStrip(inp) ==
    LET n == inp.text
    IN  CASE InputExc(inp) # "none" -> Raise(Base, InputExc(inp))
          [] n = <<>> -> [Base EXCEPT !.msg = "Name cannot be empty"]
          [] OTHER -> [Base EXCEPT !.pc = "add_email", !.name = n]

AddUserName(inp) ==
    LET n == Strip(inp.text)
    IN  CASE InputExc(inp) # "none" -> Raise(Base, InputExc(inp))
          [] n = <<>> -> [Base EXCEPT !.msg = "Name cannot be empty"]
          [] OTHER -> [Base EXCEPT !.pc = "add_email", !.name = n]

\* add_user(): the email prompt
AddUserEmailNoAtCheck(inp) ==
    LET e == Strip(inp.text)
    IN  CASE InputExc(inp) # "none" -> Raise(Base, InputExc(inp))
          [] e = <<>> -> [Base EXCEPT !.msg = "Invalid email address"]
          [] OTHER -> [Base EXCEPT !.pc = "add_password", !.name = name, !.email = e]

AddUserEmail(inp) ==
    LET e == Strip(inp.text)
    IN  CASE InputExc(inp) # "none" -> Raise(Base, InputExc(inp))
          [] e = <<>> \/ ~Contains(e, "@") -> [Base EXCEPT !.msg = "Invalid email address"]
          [] OTHER -> [Base EXCEPT !.pc = "add_password", !.name = name, !.email = e]

\* add_user(): the password prompt, the assignment and the save
AddUserPassword(inp, outcome) ==
    LET p == Strip(inp.text)
        u == [users EXCEPT !.items = DictSet(users.items, name, Some(email),
                                             IF p # <<>> THEN Some(p) ELSE None)]
        s == SaveUsers(u, file, outcome)
    IN  CASE InputExc(inp) # "none" -> Raise(Base, InputExc(inp))
          [] users.kind # "dict" -> Raise(Base, "TypeError")
          [] s.exc # "none" ->
                [Base EXCEPT !.exc = s.exc, !.users = u, !.file = s.file, !.save = "failed"]
          [] OTHER ->
                [Base EXCEPT !.pc = "add_switch", !.users = u, !.file = s.file,
                             !.save = "ok", !.msg = "Added user",
                             !.name = name, !.email = email]

\* add_user(): the switch prompt
AddUserSwitchCaseSensitive(inp, ok1, ok2) ==
    CASE InputExc(inp) # "none" -> Raise(Base, InputExc(inp))
      [] inp.text = <<"y">> -> Switched(Base, name, Some(email), ok1, ok2)
      [] OTHER -> Base

AddUserSwitch(inp, ok1, ok2) ==
    CASE InputExc(inp) # "none" -> Raise(Base, InputExc(inp))
      [] Lower(inp.text) = <<"y">> -> Switched(Base, name, Some(email), ok1, ok2)
      [] OTHER -> Base

\* remove_user(): the choice prompt
RemoveUserChoiceOffByOne(inp) ==
    LET p == ParseInt(inp.text)
    IN  CASE InputExc(inp) # "none" -> Raise(Base, InputExc(inp))
          [] ~p.ok -> [Base EXCEPT !.exc = "ValueError", !.handler = "inner",
                                   !.msg = "Invalid input"]
          [] p.val = 0 -> Base
          [] 1 <= p.val /\ p.val < Len(users.items) ->
                [Base EXCEPT !.pc = "remove_confirm", !.name = users.items[p.val + 1].name]
          [] OTHER -> [Base EXCEPT !.msg = "Invalid choice"]

RemoveUserChoice(inp) ==
    LET p == ParseInt(inp.text)
    IN  CASE InputExc(inp) # "none" -> Raise(Base, InputExc(inp))
          [] ~p.ok -> [Base EXCEPT !.exc = "ValueError", !.handler = "inner",
                                   !.msg = "Invalid input"]
          [] p.val = 0 -> Base
          [] 1 <= p.val /\ p.val <= Len(users.items) ->
                [Base EXCEPT !.pc = "remove_confirm", !.name = users.items[p.val].name]
          [] OTHER -> [Base EXCEPT !.msg = "Invalid choice"]

RemoveUserConfirmClearsIdentity(inp, outcome) ==
    LET u == [users EXCEPT !.items = DictDel(users.items, name)]
        s == SaveUsers(u, file, outcome)
    IN  CASE InputExc(inp) # "none" -> Raise(Base, InputExc(inp))
          [] Lower(inp.text) # <<"y">> -> Base
          [] s.exc # "none" ->
                [Base EXCEPT !.exc = s.exc, !.users = u, !.file = s.file, !.save = "failed"]
          [] OTHER ->
                [Base EXCEPT !.users = u, !.file = s.file, !.save = "ok",
                             !.msg = "Removed user",
                             !.cfgName = IF cfgName = Some(name) THEN None ELSE cfgName]

RemoveUserConfirmNoSave(inp, outcome) ==
    LET u == [users EXCEPT !.items = DictDel(users.items, name)]
    IN  CASE InputExc(inp) # "none" -> Raise(Base, InputExc(inp))
          [] Lower(inp.text) # <<"y">> -> Base
          [] OTHER -> [Base EXCEPT !.users = u, !.msg = "Removed user"]

\* remove_user(): the confirmation prompt, the deletion and the save
RemoveUserConfirm(inp, outcome) ==
    LET u == [users EXCEPT !.items = DictDel(users.items, name)]
        s == SaveUsers(u, file, outcome)
    IN  CASE InputExc(inp) # "none" -> Raise(Base, InputExc(inp))
          [] Lower(inp.text) # <<"y">> -> Base
          [] s.exc # "none" ->
                [Base EXCEPT !.exc = s.exc, !.users = u, !.file = s.file, !.save = "failed"]
          [] OTHER ->
                [Base EXCEPT !.users = u, !.file = s.file, !.save = "ok",
                             !.msg = "Removed user"]

(***************************************************************************)
(* Inputs tried at each prompt                                             *)
(***************************************************************************)
Signals == {Interrupt, EndOfInput}

MenuInputs ==
    {Line(t) : t \in {<<"1">>, <<"2">>, <<"3">>, <<"4">>, <<" ", "2", " ">>,
                      <<"5">>}} \cup Signals

NumberInputs ==
    {Line(t) : t \in {<<"0">>, <<"1">>, <<"2">>, <<"3">>, <<" ", "1", " ">>,
                      <<"-", "1">>, <<"x">>}} \cup Signals

NameInputs ==
    {Line(t) : t \in {<<>>, <<" ">>, <<"A">>, <<" ", "B", " ">>}} \cup Signals

EmailInputs ==
    {Line(t) : t \in {<<" ">>, <<"a">>, <<"a", "@", "x">>, <<" ", "@", " ">>}}
        \cup Signals

PasswordInputs == {Line(t) : t \in {<<>>, <<" ">>, <<" ", "p">>}} \cup Signals

YesNoInputs ==
    {Line(t) : t \in {<<"y">>, <<"Y">>, <<"n">>, <<" ", "y">>, <<"y", "e", "s">>}}
        \cup Signals

(***************************************************************************)
(* Initial states: the environment the program is started in                *)
(***************************************************************************)
Depths == 0 .. MaxDepth

GitOnlyAt(d, kind) == [x \in Depths |-> IF x = d THEN kind ELSE "none"]

\* a repository one level below the root; a .git directory in the root only;
\* a .git that is a file (a linked worktree)
RunFilesystems ==
    {[cwd |-> 1, dotgit |-> GitOnlyAt(1, "dir")],
     [cwd |-> 1, dotgit |-> GitOnlyAt(0, "dir")],
     [cwd |-> 1, dotgit |-> GitOnlyAt(1, "file")]}

\* every working directory of depth up to MaxDepth with every choice of .git
\* entries in it and in its ancestors
AllFilesystems ==
    {fs \in [cwd : Depths, dotgit : [Depths -> EntryKinds]] :
        \A d \in Depths : d > fs.cwd => fs.dotgit[d] = "none"}

MemberA == Member(<<"A">>, JsonString(<<"a", "@", "x">>), JsonNull)

MemberA2 == Member(<<"A">>, JsonString(<<"@">>), JsonString(<<"p">>))

MemberB == Member(<<"B">>, JsonString(<<"@">>), JsonNull)

InitialFiles ==
    {AbsentFile, GarbageFile, UndecodableFile,
     ArrayFile(<<>>), ArrayFile(<<JsonNull>>),
     ObjectFile(<<>>), ObjectFile(<<MemberA, MemberB>>),
     ObjectFile(<<MemberA, MemberB, MemberA2>>)}

InitialConfigs ==
    {[name |-> None, email |-> None],
     [name |-> Some(<<"Z">>), email |-> None]}

InitProgram ==
    /\ gitDir = NoDir
    /\ users = EmptyDict
    /\ pc = "start"
    /\ name = <<>>
    /\ email = <<>>
    /\ exitStatus = NotExited
    /\ lastSave = [status |-> "none", users |-> EmptyDict]
    /\ ev = NoEv

InitEnvironment ==
    /\ toolOk \in BOOLEAN
    /\ \E c \in InitialConfigs : cfgName = c.name /\ cfgEmail = c.email
    /\ file \in InitialFiles

Init ==
    /\ \E fs \in RunFilesystems : cwd = fs.cwd /\ dotgit = fs.dotgit
    /\ InitEnvironment
    /\ budget = MaxFaults
    /\ InitProgram

\* an environment in which every save and every git write succeeds
InitReliable ==
    /\ \E fs \in RunFilesystems : cwd = fs.cwd /\ dotgit = fs.dotgit
    /\ InitEnvironment
    /\ budget = 0
    /\ InitProgram

\* a first run: a repository in which git-users.json does not exist yet
InitFresh ==
    /\ \E fs \in RunFilesystems : cwd = fs.cwd /\ dotgit = fs.dotgit
    /\ toolOk \in BOOLEAN
    /\ \E c \in InitialConfigs : cfgName = c.name /\ cfgEmail = c.email
    /\ file = AbsentFile
    /\ budget = MaxFaults
    /\ InitProgram

InitLocate ==
    /\ \E fs \in AllFilesystems : cwd = fs.cwd /\ dotgit = fs.dotgit
    /\ toolOk = TRUE
    /\ cfgName = None
    /\ cfgEmail = None
    /\ file = AbsentFile
    /\ budget = MaxFaults
    /\ InitProgram

(***************************************************************************)
(* Actions                                                                 *)
(***************************************************************************)
Environment == <<cwd, dotgit, toolOk>>

\* main() -> GitUserSwitcher.__init__()
Start ==
    /\ pc = "start"
    /\ LET g == FindGitDir(cwd, dotgit)
           l == LoadUsers(file)
           exc == IF ~g.found THEN "SystemExit" ELSE l.exc
           c == MainCatch(exc)
       IN  /\ gitDir' = g
           /\ users' = IF exc = "none" THEN l.value ELSE users
           /\ pc' = IF exc = "none" THEN "loop_top" ELSE c.pc
           /\ exitStatus' = IF exc = "none" THEN NotExited ELSE c.exit
           /\ ev' = [NoEv EXCEPT !.op = "init", !.exc = exc, !.loaded = g.found,
                                 !.handler = IF exc = "none" THEN "none" ELSE c.handler,
                                 !.msg = IF exc = "none" THEN "" ELSE c.msg]
    /\ UNCHANGED <<Environment, cfgName, cfgEmail, file, name, email, budget, lastSave>>

\* run(): display_current_user() and the menu, outside the try
LoopTop ==
    /\ pc = "loop_top"
    /\ LET g == GetCurrentUser(toolOk, cfgName, cfgEmail)
           c == MainCatch(g.exc)
       IN  /\ pc' = IF g.exc = "none" THEN "menu" ELSE c.pc
           /\ exitStatus' = IF g.exc = "none" THEN NotExited ELSE c.exit
           /\ ev' = [NoEv EXCEPT !.op = "display", !.exc = g.exc,
                                 !.handler = IF g.exc = "none" THEN "none" ELSE c.handler,
                                 !.msg = IF g.exc # "none" THEN c.msg
                                         ELSE IF g.name.some /\ g.name.v # <<>>
                                                 /\ g.email.some /\ g.email.v # <<>>
                                         THEN "Current Git user"
                                         ELSE "No Git user configured",
                                 !.got = [name |-> g.name, email |-> g.email]]
    /\ UNCHANGED <<Environment, cfgName, cfgEmail, file, gitDir, users, name, email,
                   budget, lastSave>>

Failures(r) ==
    (IF r.save = "failed" THEN 1 ELSE 0)
        + Cardinality({i \in DOMAIN r.writes : ~r.writes[i].ok})

\* One step inside the try of run(): the operation's code from the prompt it
\* waits at to the next prompt, its exception routed as run() routes it; the
\* loop left by break ends main() normally.
Step(op, inp, r) ==
    LET c == IF r.exc = "none" \/ r.handler = "inner"
             THEN [pc |-> r.pc, handler |-> r.handler, msg |-> r.msg,
                   exit |-> IF r.pc = "done" THEN Exited(0) ELSE NotExited]
             ELSE RunCatch(r.exc)
    IN  /\ Failures(r) <= budget
        /\ budget' = budget - Failures(r)
        /\ pc' = c.pc
        /\ exitStatus' = c.exit
        /\ users' = r.users
        /\ file' = r.file
        /\ cfgName' = r.cfgName
        /\ cfgEmail' = r.cfgEmail
        /\ name' = IF c.pc = r.pc THEN r.name ELSE <<>>
        /\ email' = IF c.pc = r.pc THEN r.email ELSE <<>>
        /\ lastSave' = IF r.save = "none" THEN lastSave
                       ELSE [status |-> r.save, users |-> r.users]
        /\ ev' = [op |-> op, input |-> inp, exc |-> r.exc, handler |-> c.handler,
                  msg |-> c.msg, save |-> r.save, writes |-> r.writes, got |-> NoGot,
                  shown |-> r.shown, loaded |-> FALSE]
        /\ UNCHANGED <<Environment, gitDir>>

\* the flags of writes that were not issued stay TRUE
WritesUse(r, ok1, ok2) ==
    /\ Len(r.writes) < 1 => ok1
    /\ Len(r.writes) < 2 => ok2

SaveUses(r, outcome) ==
    /\ r.save = "none" => outcome = "ok"
    /\ r.save = "ok" <=> (outcome = "ok" /\ r.save # "none")

Menu ==
    /\ pc = "menu"
    /\ \E inp \in MenuInputs : Step("menu", inp, MenuDispatch(inp))

ChangeChoice ==
    /\ pc = "change_choice"
    /\ \E inp \in NumberInputs, ok1, ok2 \in BOOLEAN :
          LET r == ChangeUserChoice(inp, ok1, ok2)
          IN  WritesUse(r, ok1, ok2) /\ Step("change", inp, r)

AddName ==
    /\ pc = "add_name"
    /\ \E inp \in NameInputs : Step("add_name", inp, AddUserName(inp))

AddEmail ==
    /\ pc = "add_email"
    /\ \E inp \in EmailInputs : Step("add_email", inp, AddUserEmail(inp))

AddPassword ==
    /\ pc = "add_password"
    /\ \E inp \in PasswordInputs, outcome \in SaveOutcomes :
          LET r == AddUserPassword(inp, outcome)
          IN  SaveUses(r, outcome) /\ Step("add_password", inp, r)

AddSwitch ==
    /\ pc = "add_switch"
    /\ \E inp \in YesNoInputs, ok1, ok2 \in BOOLEAN :
          LET r == AddUserSwitch(inp, ok1, ok2)
          IN  WritesUse(r, ok1, ok2) /\ Step("add_switch", inp, r)

RemoveChoice ==
    /\ pc = "remove_choice"
    /\ \E inp \in NumberInputs : Step("remove_choice", inp, RemoveUserChoice(inp))

RemoveConfirm ==
    /\ pc = "remove_confirm"
    /\ \E inp \in YesNoInputs, outcome \in SaveOutcomes :
          LET r == RemoveUserConfirm(inp, outcome)
          IN  SaveUses(r, outcome) /\ Step("remove_confirm", inp, r)

Next ==
    \/ Start
    \/ LoopTop
    \/ Menu
    \/ ChangeChoice
    \/ AddName
    \/ AddEmail
    \/ AddPassword
    \/ AddSwitch
    \/ RemoveChoice
    \/ RemoveConfirm

Spec == Init /\ [][Next]_vars

\* the same program where the disk and the git writes never fail
SpecReliable == InitReliable /\ [][Next]_vars

\* the locator alone, over every filesystem of depth up to MaxDepth
SpecFresh == InitFresh /\ [][Next]_vars

NextLocate == Start

SpecLocate == InitLocate /\ [][NextLocate]_vars

(***************************************************************************)
(* Properties                                                              *)
(***************************************************************************)
AllSpaces(t) == \A i \in DOMAIN t : t[i] \in {" ", "\n"}

HasAt(t) == \E i \in DOMAIN t : t[i] = "@"

C2_LoadToleratesAnyFile ==
    (ev.op = "init" /\ gitDir.found /\ file.kind # "object") =>
        /\ ev.exc = "none"
        /\ pc = "loop_top"
        /\ users = EmptyDict

\* C3: get_current_user never raises; a field is absent exactly when its own
\* invocation failed (git could not be launched, or the key is not set).
C3_GetCurrentUserNeverRaises ==
    ev.op = "display" =>
        /\ ev.exc = "none"
        /\ ev.got.name.some <=> (toolOk /\ cfgName.some)
        /\ ev.got.email.some <=> (toolOk /\ cfgEmail.some)

\* C4: an exception raised at any step of a loop iteration that no inner except
\* clause handles (KeyboardInterrupt aside) is caught by the loop, reported, and
\* the controller goes on with the next iteration; the process does not end.
C4_LoopCatchesEveryException ==
    (ev.op \notin {"none", "init"} /\ ev.exc \notin {"none", "KeyboardInterrupt"}
        /\ ev.handler # "inner") =>
        /\ ev.handler = "loop"
        /\ ev.msg = "Error"
        /\ pc = "loop_top"
        /\ ~exitStatus.exited

\* C5 as stated: a filesystem error during save() is fatal, the controller does
\* not return to MENU.
C5_SaveErrorIsFatal ==
    ev.save = "failed" => (pc = "done" /\ exitStatus.exited /\ exitStatus.code # 0)

\* C5 as amended: a filesystem error during save() is caught by the loop-level
\* handler of run(), reported, and the controller returns to MENU with the
\* process alive.
C5_SaveErrorCaughtByLoop ==
    ev.save = "failed" =>
        /\ ev.exc = "OSError"
        /\ ev.handler = "loop"
        /\ ev.msg = "Error"
        /\ pc = "loop_top"
        /\ ~exitStatus.exited

\* C5 witness: the save of an Add failed while writing and left a cut-off file.
C5_Witness ==
    /\ ev.op = "add_password"
    /\ ev.save = "failed"
    /\ file = GarbageFile
    /\ Len(users.items) = 1
    /\ pc = "loop_top"

\* the nearest ancestor of the working directory, the root included, that holds
\* a .git directory
NearestGitDir(start, dg) ==
    LET hits == {d \in 0 .. start : dg[d] = "dir"}
    IN  IF hits = {} THEN NoDir
        ELSE DirAt(CHOOSE d \in hits : \A x \in hits : x <= d)

\* C6: the locator examines every directory from the working directory up to and
\* including the root and returns the nearest one holding a .git directory; it
\* finds nothing only if none of them, the root included, has one.
C6_LocatorExaminesRoot ==
    pc # "start" => gitDir = NearestGitDir(cwd, dotgit)

\* a step that reads a line at the name prompt that trims to nothing, or a line
\* at the email prompt that trims to nothing or has no "@"
RejectedAdd ==
    /\ ev'.input.kind = "line"
    /\ \/ pc = "add_name" /\ ev'.op = "add_name" /\ AllSpaces(ev'.input.text)
       \/ /\ pc = "add_email" /\ ev'.op = "add_email"
          /\ (AllSpaces(ev'.input.text) \/ ~HasAt(ev'.input.text))

\* C7: a rejected Add leaves the store and the backing file as they were, saves
\* nothing, issues no identity write and returns to MENU.
C7_RejectedAddChangesNothing ==
    [][RejectedAdd =>
        /\ users' = users
        /\ file' = file
        /\ lastSave' = lastSave
        /\ ev'.save = "none"
        /\ ev'.writes = NoWrites
        /\ cfgName' = cfgName
        /\ cfgEmail' = cfgEmail
        /\ pc' = "loop_top"
        /\ ~exitStatus'.exited]_vars

\* C7 witness: an email without "@" was refused while the store held entries.
C7_Witness ==
    /\ ev.op = "add_email"
    /\ ev.input = Line(<<"a">>)
    /\ ev.msg = "Invalid email address"
    /\ Len(users.items) = 2
    /\ pc = "loop_top"

\* a step that reads a line at the password prompt of an Add whose name and
\* email were accepted
AcceptedAdd ==
    /\ pc = "add_password"
    /\ ev'.op = "add_password"
    /\ ev'.input.kind = "line"

\* C8: an accepted Add(name, email, secret) leaves the store with exactly one
\* entry keyed by name, holding the email and the secret (null when skipped),
\* leaves every other entry as it was, and persists the result; a name already
\* present is overwritten and the store does not grow.
C8_AcceptedAddStoresAndPersists ==
    [][AcceptedAdd =>
        LET rec == Entry(name, Some(email),
                         IF AllSpaces(ev'.input.text) THEN None
                         ELSE Some(Strip(ev'.input.text)))
        IN  /\ users'.kind = "dict"
            /\ Cardinality({i \in DOMAIN users'.items : users'.items[i].name = name}) = 1
            /\ \E i \in DOMAIN users'.items : users'.items[i] = rec
            /\ \A k \in DOMAIN users.items :
                  users.items[k].name # name =>
                      \E j \in DOMAIN users'.items : users'.items[j] = users.items[k]
            /\ \A j \in DOMAIN users'.items :
                  users'.items[j].name # name =>
                      \E k \in DOMAIN users.items : users.items[k] = users'.items[j]
            /\ (\E k \in DOMAIN users.items : users.items[k].name = name) =>
                  Len(users'.items) = Len(users.items)
            /\ ev'.save = "ok"
            /\ LoadUsers(file').value = users']_vars

\* a step that reads a line at the switch prompt of an Add
SwitchAnswered ==
    /\ pc = "add_switch"
    /\ ev'.op = "add_switch"
    /\ ev'.input.kind = "line"

IsYes(t) == t \in {<<"y">>, <<"Y">>}

\* the backing file holds the record of the Add that is at its switch prompt
RecordPersisted ==
    LET l == LoadUsers(file)
    IN  /\ l.exc = "none"
        /\ l.value = users
        /\ \E i \in DOMAIN l.value.items :
              l.value.items[i].name = name /\ l.value.items[i].email = Some(email)

\* the two writes of set_git_user(n, e), in order, each with git's verdict
IdentityWritten(n, e) ==
    /\ Len(ev'.writes) = 2
    /\ ev'.writes[1].key = "user.name" /\ ev'.writes[1].value = Some(n)
    /\ ev'.writes[2].key = "user.email" /\ ev'.writes[2].value = e
    /\ cfgName' = IF ev'.writes[1].ok THEN Some(n) ELSE cfgName
    /\ cfgEmail' = IF ev'.writes[2].ok THEN e ELSE cfgEmail

IdentityUntouched ==
    /\ ev'.writes = NoWrites
    /\ cfgName' = cfgName
    /\ cfgEmail' = cfgEmail

\* C9 as stated: after an accepted Add the external identity is the new record's
\* (name, email) if the answer to the switch prompt is "y" or "Y" and is left
\* unchanged for any other answer; the record is persisted before the prompt.
C9_SwitchSetsIdentity ==
    [][SwitchAnswered =>
        /\ RecordPersisted
        /\ IF IsYes(ev'.input.text)
           THEN cfgName' = Some(name) /\ cfgEmail' = Some(email)
           ELSE IdentityUntouched]_vars

\* C9 as amended: set_git_user(name, email) is called if and only if the answer is
\* "y" or "Y"; user.name and user.email then each take the new value unless git
\* exits non-zero on that write, which is ignored and leaves the value as it
\* was. Any other answer issues no write. The record is persisted before the
\* prompt is shown.
C9_SwitchWritesIdentity ==
    [][SwitchAnswered =>
        /\ RecordPersisted
        /\ IF IsYes(ev'.input.text)
           THEN IdentityWritten(name, Some(email))
           ELSE IdentityUntouched]_vars

\* C9 witness: "Y" switched to the record just added, both writes succeeding.
C9_Witness ==
    /\ ev.op = "add_switch"
    /\ ev.input = Line(<<"Y">>)
    /\ Len(ev.writes) = 2
    /\ ev.writes[1].ok /\ ev.writes[2].ok
    /\ cfgName = Some(<<"B">>)
    /\ cfgEmail = Some(<<"@">>)
    /\ \E i \in DOMAIN users.items : users.items[i].name = <<"B">>

\* a step that reads a line at the choice prompt of Change
ChangeAnswered ==
    /\ pc = "change_choice"
    /\ ev'.op = "change"
    /\ ev'.input.kind = "line"

ValidChoice(t, n) == ParseInt(t).ok /\ 1 <= ParseInt(t).val /\ ParseInt(t).val <= n

\* Change chosen at the menu
ChangeChosen ==
    /\ pc = "menu"
    /\ ev'.op = "menu"
    /\ ev'.input.kind = "line"
    /\ Strip(ev'.input.text) = <<"1">>

\* Change on a store without entries prompts for nothing and writes nothing
ChangeOnEmptyStore ==
    (ChangeChosen /\ users.items = <<>>) => (pc' = "loop_top" /\ IdentityUntouched)

\* C10 as stated: a choice k within 1..n makes the external identity the name and
\* email of the k-th entry; 0, a number out of range or a non-number issues no
\* write and returns to MENU; Change on an empty store prompts and writes nothing.
C10_ChangeSetsIdentity ==
    [][/\ ChangeOnEmptyStore
       /\ ChangeAnswered =>
            /\ pc' = "loop_top"
            /\ IF ValidChoice(ev'.input.text, Len(users.items))
               THEN LET k == ParseInt(ev'.input.text).val
                    IN  /\ cfgName' = Some(users.items[k].name)
                        /\ cfgEmail' = users.items[k].email
               ELSE IdentityUntouched]_vars

\* C10 as amended: a choice k within 1..n calls set_git_user with the name and
\* email of the k-th entry in insertion order; user.name and user.email each
\* take that value unless git exits non-zero on that write, which is ignored and
\* leaves the value as it was. The rest as stated.
C10_ChangeWritesIdentity ==
    [][/\ ChangeOnEmptyStore
       /\ ChangeAnswered =>
            /\ pc' = "loop_top"
            /\ IF ValidChoice(ev'.input.text, Len(users.items))
               THEN LET k == ParseInt(ev'.input.text).val
                    IN  IdentityWritten(users.items[k].name, users.items[k].email)
               ELSE IdentityUntouched]_vars

\* C10 witness: choice 2 of two entries made the second entry the identity.
C10_Witness ==
    /\ ev.op = "change"
    /\ ev.input = Line(<<"2">>)
    /\ Len(users.items) = 2
    /\ Len(ev.writes) = 2
    /\ ev.writes[1].ok /\ ev.writes[2].ok
    /\ cfgName = Some(users.items[2].name)
    /\ cfgEmail = users.items[2].email
    /\ users.items[1].name # users.items[2].name
    /\ pc = "loop_top"

(***************************************************************************)
(* Remove                                                                  *)
(***************************************************************************)
\* a step that reads a line at the choice prompt of Remove
RemoveChoiceAnswered ==
    /\ pc = "remove_choice"
    /\ ev'.op = "remove_choice"
    /\ ev'.input.kind = "line"

\* a step that reads a line at the confirmation prompt of Remove
RemoveConfirmAnswered ==
    /\ pc = "remove_confirm"
    /\ ev'.op = "remove_confirm"
    /\ ev'.input.kind = "line"

\* the entries of u whose name is not n, in order
Without(u, n) == SelectSeq(u.items, LAMBDA e : e.name # n)

\* the choice prompt of Remove: ev.shown is the list this invocation printed; a
\* choice k within it selects the name printed at k, which is an entry of the
\* store; any other answer returns to MENU; nothing is changed either way
RemoveChoiceSelectsShown ==
    RemoveChoiceAnswered =>
        /\ users' = users
        /\ file' = file
        /\ IF ValidChoice(ev'.input.text, Len(ev.shown))
           THEN LET k == ParseInt(ev'.input.text).val
                IN  /\ pc' = "remove_confirm"
                    /\ name' = ev.shown[k].name
                    /\ k \in DOMAIN users.items
                    /\ users.items[k].name = name'
           ELSE pc' = "loop_top"

\* the store after the step is the store before it less exactly the entry `name`
ChosenEntryDeleted ==
    /\ \E i \in DOMAIN users.items : users.items[i].name = name
    /\ Len(users'.items) = Len(users.items) - 1
    /\ users'.items = Without(users, name)

\* the file after the step decodes to the store after the step
StorePersisted ==
    /\ ev'.save = "ok"
    /\ LoadUsers(file') = [exc |-> "none", value |-> users']
    /\ users'.items = <<>> => file' = ObjectFile(<<>>)

\* C11 as stated: Remove deletes exactly the entry displayed at the chosen
\* 1-based index of the list this invocation showed, only after a "y" answer
\* (in either case), and then persists the store, an emptied store as {}; the
\* chosen entry is present when it is deleted; after choice 0, a number out of
\* range, a non-number or another confirmation, store and file are unchanged.
C11_RemoveDeletesAndPersists ==
    [][/\ RemoveChoiceSelectsShown
       /\ RemoveConfirmAnswered =>
            /\ pc' = "loop_top"
            /\ IF IsYes(ev'.input.text)
               THEN ChosenEntryDeleted /\ StorePersisted
               ELSE users' = users /\ file' = file]_vars

\* C11 as amended: as stated, except that the save after the deletion can raise
\* a filesystem error; the entry is then deleted in memory only, the file is
\* left as it was or truncated, and the loop reports the error and goes on.
C11_RemoveDeletesAndSaves ==
    [][/\ RemoveChoiceSelectsShown
       /\ RemoveConfirmAnswered =>
            /\ pc' = "loop_top"
            /\ IF IsYes(ev'.input.text)
               THEN /\ ChosenEntryDeleted
                    /\ \/ StorePersisted
                       \/ /\ ev'.save = "failed"
                          /\ ev'.exc = "OSError"
                          /\ ev'.handler = "loop"
                          /\ file' \in {file, GarbageFile}
               ELSE users' = users /\ file' = file]_vars

\* C11 witness: "y" removed the second of two entries and the file holds the
\* one that is left.
C11_Witness ==
    /\ ev.op = "remove_confirm"
    /\ ev.input = Line(<<"y">>)
    /\ ev.save = "ok"
    /\ Len(users.items) = 1
    /\ users.items[1].name = <<"A">>
    /\ file.kind = "object"
    /\ LoadUsers(file).value = users
    /\ pc = "loop_top"

(***************************************************************************)
(* Exit                                                                    *)
(***************************************************************************)
\* the steps that wait at a prompt: the menu and the prompts of Change, Add, Remove
PromptOps ==
    {"menu", "change", "add_name", "add_email", "add_password", "add_switch",
     "remove_choice", "remove_confirm"}

\* the last step was an interrupt delivered at a prompt
InterruptedAtPrompt == ev.op \in PromptOps /\ ev.input.kind = "interrupt"

\* the last step was the Exit choice at the menu
ExitChosen ==
    /\ ev.op = "menu"
    /\ ev.input.kind = "line"
    /\ Strip(ev.input.text) = <<"4">>

\* C12: the exit status is 0, after the farewell, when the program ends by the
\* Exit choice or by an interrupt at any prompt (the menu or a prompt inside
\* Change, Add or Remove); it is 1 when no repository root is located at
\* startup, and then the store is not read and git is not invoked.
C12_ExitStatus ==
    /\ (InterruptedAtPrompt \/ ExitChosen) =>
          /\ pc = "done"
          /\ exitStatus = Exited(0)
          /\ ev.msg = "Goodbye!"
    /\ (pc # "start" /\ ~gitDir.found) =>
          /\ pc = "done"
          /\ exitStatus = Exited(1)
          /\ ev.op = "init"
          /\ ~ev.loaded
          /\ users = EmptyDict
          /\ ev.got = NoGot
          /\ ev.writes = NoWrites

\* C12 witness: an interrupt at the password prompt of Add ended the program
\* with status 0.
C12_Witness ==
    /\ ev.op = "add_password"
    /\ ev.input = Interrupt
    /\ ev.msg = "Goodbye!"
    /\ exitStatus = Exited(0)
    /\ pc = "done"

\* C13: once the loop has been entered, the program ends only by the Exit choice
\* at the menu or by an interrupt: no unrecognized menu input, invalid
\* selection, end of input, tool failure or other error in an iteration ends it.
C13_OnlyExitOrInterruptEndsLoop ==
    [][(pc \notin {"start", "done"} /\ pc' = "done") =>
          \/ ev'.op \in PromptOps /\ ev'.input.kind = "interrupt"
          \/ /\ ev'.op = "menu"
             /\ ev'.input.kind = "line"
             /\ Strip(ev'.input.text) = <<"4">>]_vars

(***************************************************************************)
(* Persistence                                                             *)
(***************************************************************************)
\* the backing file decodes to the in-memory store
FileEqualsMemory ==
    LET l == LoadUsers(file)
    IN  l.exc = "none" /\ l.value = users

\* an Add or a Remove has executed its mutation of the store (each is followed
\* by a call of _save_users, which lastSave records)
StoreMutated == lastSave.status # "none"

\* C14 as stated: at every menu prompt reached after an Add or a Remove has
\* changed the in-memory store, the file's contents equal the in-memory store.
C14_MenuFileEqualsMemory ==
    (pc = "menu" /\ StoreMutated) => FileEqualsMemory

\* C14 as amended: at every menu prompt reached after an Add or a Remove has
\* changed the in-memory store, the file's contents equal the in-memory store
\* unless the latest save raised a filesystem error; memory then still holds the
\* mutation that save was to write.
C14_MenuFileEqualsMemoryUnlessSaveFailed ==
    (pc = "menu" /\ StoreMutated) =>
        /\ lastSave.users = users
        /\ lastSave.status = "ok" => FileEqualsMemory

\* C14 witness: the menu after an Add of "B" and a Remove, both saved.
C14_Witness ==
    /\ pc = "menu"
    /\ lastSave.status = "ok"
    /\ budget = MaxFaults
    /\ Len(users.items) = 1
    /\ users.items[1].name = <<"B">>
    /\ file = JsonDump(users)
    /\ FileEqualsMemory

(***************************************************************************)
(* Shape of the records                                                    *)
(***************************************************************************)
\* a non-empty name that neither starts nor ends with whitespace
TrimmedName(n) == n # <<>> /\ ~IsSpace(n[1]) /\ ~IsSpace(n[Len(n)])

\* an entry of the in-memory store
WellFormedEntry(e) ==
    /\ TrimmedName(e.name)
    /\ e.email.some /\ HasAt(e.email.v)
    /\ e.password.some => e.password.v # <<>>

\* a member of the object in the backing file
WellFormedMember(m) ==
    /\ TrimmedName(m.key)
    /\ m.email.t = "string" /\ HasAt(m.email.s)
    /\ m.password.t = "null" \/ (m.password.t = "string" /\ m.password.s # <<>>)

\* C15: starting from an absent store, after any sequence of menu operations
\* every record in memory and in the backing file has a non-empty name without
\* leading or trailing whitespace, an email that contains "@", and a password
\* that is null or a non-empty string.
C15_RecordsWellFormed ==
    /\ users.kind = "dict"
    /\ \A i \in DOMAIN users.items : WellFormedEntry(users.items[i])
    /\ file.kind \in {"absent", "object", "garbage"}
    /\ file.kind = "object" => \A i \in DOMAIN file.members : WellFormedMember(file.members[i])

\* C15 witness: name " B " and password " p" were entered and the record is in
\* memory and in the file as "B" with password "p".
C15_Witness ==
    /\ \E i \in DOMAIN users.items :
          /\ users.items[i].name = <<"B">>
          /\ users.items[i].password = Some(<<"p">>)
    /\ file.kind = "object"
    /\ \E i \in DOMAIN file.members :
          /\ file.members[i].key = <<"B">>
          /\ file.members[i].password = JsonString(<<"p">>)

(***************************************************************************)
(* Frame conditions                                                        *)
(***************************************************************************)
\* a menu step that reads a line other than the Add and Remove choices: Change,
\* Exit, or an unrecognized input
MenuNotAddOrRemove ==
    /\ pc = "menu"
    /\ ev'.op = "menu"
    /\ ev'.input.kind = "line"
    /\ Strip(ev'.input.text) \notin {<<"2">>, <<"3">>}

\* a step of Change: the menu choice or the choice prompt
ChangeStep ==
    \/ ChangeChosen
    \/ pc = "change_choice" /\ ev'.op = "change"

\* a step of Remove: the menu choice, the choice prompt or the confirmation
RemoveStep ==
    \/ /\ pc = "menu"
       /\ ev'.op = "menu"
       /\ ev'.input.kind = "line"
       /\ Strip(ev'.input.text) = <<"3">>
    \/ pc = "remove_choice" /\ ev'.op = "remove_choice"
    \/ pc = "remove_confirm" /\ ev'.op = "remove_confirm"

\* C16: Change, an unrecognized menu input and Exit never modify the in-memory
\* store or the backing file, and Remove never writes the external identity, so
\* removing the record of the active identity leaves the identity as it was.
C16_OperationsOwnTheirState ==
    [][/\ (ChangeStep \/ MenuNotAddOrRemove) =>
            /\ users' = users
            /\ file' = file
            /\ ev'.save = "none"
       /\ RemoveStep =>
            /\ cfgName' = cfgName
            /\ cfgEmail' = cfgEmail
            /\ ev'.writes = NoWrites]_vars

\* C16 witness: the identity is A's, set by Change, and "y" has just removed
\* A's record from the store and the file.
C16_Witness ==
    /\ ev.op = "remove_confirm"
    /\ IsYes(ev.input.text)
    /\ ev.save = "ok"
    /\ cfgName = Some(<<"A">>)
    /\ cfgEmail = Some(<<"a", "@", "x">>)
    /\ Len(users.items) = 1
    /\ users.items[1].name = <<"B">>
    /\ file = JsonDump(users)

====
